---- MODULE Spec2Model ----
\* The JWT verification core of the sigapp API gateway: the process-wide JWKS
\* key cache (getJWKS) and the two-stage token verifier (verifyJwt), in the two
\* versions the repository holds (src/src/jwt.ts and its refactoring,
\* src/unnamed/part_003).  Calls are asynchronous: a call is a sequence of
\* steps separated by its await points, and calls in flight interleave there.
EXTENDS Naturals, Sequences, FiniteSets, TLC

\* ------------------------------------------------------------------ bounds
\* Number of call slots that may be in flight at the same time.
MaxProcs == 2

Procs == 1..MaxProcs

\* ------------------------------------------------------------- the domain
\* The two versions of verifyJwt: "legacy" is src/src/jwt.ts (every failure is
\* re-thrown as new Error(`JWT verification failed: ${message}`)), "core" is
\* src/unnamed/part_003 (failures reach the caller as they were thrown).
Impls == {"legacy", "core"}

NoAlg == "NoAlg"
NoKid == "NoKid"
HeaderAlgs == {"HS256", "HS512", "RS256", NoAlg}
\* "constructor" stands for the names every JavaScript object inherits from
\* Object.prototype (constructor, toString, __proto__, ...).
InheritedProps == {"constructor"}
HeaderKids == {"k1", "k2", NoKid} \cup InheritedProps

\* The configured shared secret (jwtSecret) and the other signing keys.
Secret == "s3cr3t"
PublicOf(priv) ==
    CASE priv = "priv1" -> "pub1"
      [] priv = "priv2" -> "pub2"
      [] priv = "priv3" -> "pub3"
      [] OTHER -> "none"

\* A signature is made with an algorithm and a signing key.
Signatures ==
    { [alg |-> "HS256", key |-> Secret], [alg |-> "HS256", key |-> "wr0ng"],
      [alg |-> "HS512", key |-> Secret],
      [alg |-> "RS256", key |-> "priv1"], [alg |-> "RS256", key |-> "priv2"],
      [alg |-> "RS256", key |-> "privX"] }

\* exp relative to the clock of the verification: jose rejects exp <= now.
Payloads == [sub : {"u1", "u2"}, exp : {"past", "future"}]
NoPayload == [sub |-> "-", exp |-> "-"]

\* Token shapes: "ok" has three dot-separated segments and a JSON-object
\* header; "emptyHeader" has an empty first segment ("" or ".p.s");
\* "badHeader" has a first segment that atob or JSON.parse rejects;
\* "scalarHeader" has a first segment that decodes to JSON that is no object
\* (123); "oneSegment" has a JSON-object header but no further segments.
DefaultSig == [alg |-> "HS256", key |-> "wr0ng"]
DefaultPayload == [sub |-> "u1", exp |-> "future"]
OkTokens ==
    [shape : {"ok"}, alg : HeaderAlgs, kid : HeaderKids, sig : Signatures, payload : Payloads]
OneSegmentTokens ==
    [shape : {"oneSegment"}, alg : HeaderAlgs, kid : HeaderKids, sig : {DefaultSig},
     payload : {DefaultPayload}]
HeaderlessTokens ==
    [shape : {"emptyHeader", "badHeader", "scalarHeader"}, alg : {NoAlg}, kid : {NoKid},
     sig : {DefaultSig}, payload : {DefaultPayload}]
Tokens == OkTokens \cup OneSegmentTokens \cup HeaderlessTokens
NoToken == [shape |-> "-", alg |-> NoAlg, kid |-> NoKid, sig |-> DefaultSig, payload |-> NoPayload]

\* Tokens of the runs with several calls in flight.
ConcTokens ==
    { t \in OkTokens :
        /\ t.payload = DefaultPayload
        /\ \/ t.alg = "RS256" /\ t.kid = "k1" /\ t.sig = [alg |-> "RS256", key |-> "priv1"]
           \/ t.alg = "HS256" /\ t.kid = NoKid /\ t.sig = [alg |-> "HS256", key |-> Secret] }

\* ---------------------------------------------------------------- results
NoErr == [kind |-> "-", detail |-> "-", wrapped |-> FALSE]
Ok(payload) == [ok |-> TRUE, payload |-> payload, err |-> NoErr]
Fail(kind, detail) ==
    [ok |-> FALSE, payload |-> NoPayload,
     err |-> [kind |-> kind, detail |-> detail, wrapped |-> FALSE]]
NoResult == [ok |-> FALSE, payload |-> NoPayload, err |-> NoErr]

\* ------------------------------------------------------ the JWKS endpoint
\* What the JWKS URL answers: unreachable, a non-2xx status, a document with
\* an empty or missing keys array, or a document with keys.
EndpointStates == {"down", "status500", "nokeys", "badkey", "ks1", "ks2"}
JWK(kid, pub, importable) == [kid |-> kid, alg |-> "RS256", pub |-> pub, importable |-> importable]
KeysOf(e) ==
    CASE e = "ks1" -> << JWK("k1", "pub1", TRUE) >>
      [] e = "ks2" -> << JWK("k2", "pub2", TRUE), JWK("k3", "pub3", TRUE) >>
      [] e = "badkey" -> << JWK("k1", "pub1", TRUE), JWK("k3", "pub3", FALSE) >>
      [] OTHER -> << >>

\* The JWKS URLs a call can name: the configured one, whose answers vary
\* (endpoint), and some other URL, which serves the two-key document.
JwkUrl == "JWK_URL"
OtherUrl == "OTHER_JWKS_URL"
Urls == {JwkUrl, OtherUrl}
NoUrl == "-"
AnswerOf(u, e) == IF u = JwkUrl THEN e ELSE "ks2"

\* Key material: the shared secret as bytes, an imported public CryptoKey, or
\* a member of Object.prototype (no key at all).
SecretKey(s) == [type |-> "secret", alg |-> "-", id |-> s]
PublicKey(jwk) == [type |-> "public", alg |-> jwk.alg, id |-> jwk.pub]
InheritedValue == [type |-> "inherited", alg |-> "-", id |-> "-"]
Undefined == [type |-> "undefined", alg |-> "-", id |-> "-"]

\* A Record<string, CryptoKey>: each own property name maps to a key, every
\* other name to undefined.
JwkKids == {"k1", "k2", "k3"}
EmptyRecord == [k \in JwkKids |-> Undefined]
\* The cache slot cachedJWK: null, or a record of kid -> CryptoKey.
NoCache == [set |-> FALSE, map |-> EmptyRecord]
Cached(m) == [set |-> TRUE, map |-> m]

\* ------------------------------------------------------- pure operations
\* _parseJwtHeader, and the same lines inlined in src/src/jwt.ts: the first
\* segment must be non-empty, is base64-decoded and parsed as JSON; kid and
\* alg are read off whatever the JSON is.
ParseJwtHeader(t) ==
    CASE t.shape = "emptyHeader" -> [r |-> Fail("MalformedToken", "-"), kid |-> NoKid, alg |-> NoAlg]
      [] t.shape = "badHeader" -> [r |-> Fail("HeaderDecodeError", "-"), kid |-> NoKid, alg |-> NoAlg]
      [] t.shape = "scalarHeader" -> [r |-> Ok(NoPayload), kid |-> NoKid, alg |-> NoAlg]
      [] OTHER -> [r |-> Ok(NoPayload), kid |-> t.kid, alg |-> t.alg]

\* jose's key check: an HS* algorithm takes secret bytes, RS256 takes a public
\* CryptoKey imported for RS256; anything else is a TypeError.
KeyUsable(alg, key) ==
    IF alg \in {"HS256", "HS512"} THEN key.type = "secret"
    ELSE key.type = "public" /\ key.alg = alg

\* Variant: the signature check compares the algorithm and not the key.
SigValidAlgOnly(t, alg, key) == t.sig.alg = alg

\* The signature of t verifies under the declared algorithm alg and key.
SigValid(t, alg, key) ==
    /\ t.sig.alg = alg
    /\ \/ key.type = "secret" /\ t.sig.key = key.id
       \/ key.type = "public" /\ PublicOf(t.sig.key) = key.id

\* The validation of the claims set: exp must lie in the future.
ClaimsExpired(payload) == payload.exp = "past"

\* jose's jwtVerify(token, key, { algorithms }): the compact form and the
\* protected header, the declared alg, the allowed algorithms, the key type,
\* the signature and at last the claims, in this order.
AnyAlg == {"*"}
JwtVerify(t, key, algorithms) ==
    IF t.shape # "ok" THEN Fail("JWSInvalid", "-")
    ELSE IF t.alg = NoAlg THEN Fail("JWSInvalid", "-")
    ELSE IF algorithms # AnyAlg /\ t.alg \notin algorithms THEN Fail("AlgNotAllowed", "-")
    ELSE IF ~KeyUsable(t.alg, key) THEN Fail("KeyTypeError", "-")
    ELSE IF ~SigValid(t, t.alg, key) THEN Fail("SignatureInvalid", "-")
    ELSE IF ClaimsExpired(t.payload) THEN Fail("TokenExpired", "-")
    ELSE Ok(t.payload)

\* Variant: stage 1 verifies with the anon key instead of the JWT secret.
Stage1VerifyAnonKey(t, alg) ==
    JwtVerify(t, SecretKey("an0n"), IF alg # NoAlg THEN {alg} ELSE AnyAlg)

\* Variant: stage 1 accepts HS256 only, whatever the header declares.
Stage1VerifyHS256Only(t, alg) == JwtVerify(t, SecretKey(Secret), {"HS256"})

\* Stage 1: jwtVerify with the bytes of the shared secret, the accepted
\* algorithms constrained to the declared one when there is one.
Stage1Verify(t, alg) ==
    JwtVerify(t, SecretKey(Secret), IF alg # NoAlg THEN {alg} ELSE AnyAlg)

\* Variants of the stage-2 test: the comparison inverted, the kid test
\* dropped, the algorithm test dropped.
UseJwksHS256(kid, alg) == kid # NoKid /\ alg = "HS256"
UseJwksAlgOnly(kid, alg) == alg # "HS256"
UseJwksKidOnly(kid, alg) == kid # NoKid

\* The test that sends a call to stage 2: `kid && alg !== 'HS256'`.
UseJwks(kid, alg) == kid # NoKid /\ alg # "HS256"

\* Variant: the cache is never consulted.
CacheHitNever(c) == FALSE

\* The test of the cache: `if (cachedJWK)`.
CacheHit(c) == c.set

\* Variant: the loop stops after the first key.
ImportKeysFirstOnly(keys, acc) ==
    IF keys = << >> THEN [ok |-> TRUE, map |-> acc]
    ELSE [ok |-> Head(keys).importable,
          map |-> [acc EXCEPT ![Head(keys).kid] = PublicKey(Head(keys))]]

\* Variant: a key that fails to import is skipped and the rest is kept.
ImportKeysSkipBad(keys, acc) ==
    [ok |-> TRUE,
     map |-> [k \in JwkKids |->
                 IF \E i \in DOMAIN keys : keys[i].kid = k /\ keys[i].importable
                 THEN PublicKey(keys[CHOOSE i \in DOMAIN keys : keys[i].kid = k /\ keys[i].importable])
                 ELSE acc[k]]]

\* The import loop of getJWKS: every key in turn, the first failure aborts.
RECURSIVE ImportKeys(_, _)
ImportKeys(keys, acc) ==
    IF keys = << >> THEN [ok |-> TRUE, map |-> acc]
    ELSE IF ~Head(keys).importable THEN [ok |-> FALSE, map |-> acc]
    ELSE ImportKeys(Tail(keys), [acc EXCEPT ![Head(keys).kid] = PublicKey(Head(keys))])

\* jwks[kid] on a plain object: an own property, else what Object.prototype
\* has under that name, else undefined.
LookupKey(m, kid) ==
    IF kid \in JwkKids /\ m[kid] # Undefined THEN m[kid]
    ELSE IF kid \in InheritedProps THEN InheritedValue
    ELSE Undefined

\* Stage 2 after getJWKS returned m: `if (!key) throw`, else jwtVerify(token, key).
Stage2Verify(t, kid, m) ==
    IF LookupKey(m, kid) = Undefined THEN Fail("KeyNotFound", "-")
    ELSE JwtVerify(t, LookupKey(m, kid), AnyAlg)

\* ------------------------------------------------------------ the gateway
\* The Authorization header of a request: absent, "Bearer " with nothing
\* after it, or "Bearer <token>".
NoAuthHeader == [kind |-> "none", token |-> NoToken]
EmptyBearer == [kind |-> "empty", token |-> NoToken]
Bearer(t) == [kind |-> "bearer", token |-> t]

\* Variant: every header counts as carrying a token.
TokenMissingNever(auth) == FALSE

\* `!token` after `authHeader.replace('Bearer ', '').trim()`.
TokenMissing(auth) == auth.kind # "bearer"

\* The token handed to verifyJwt: the empty string when nothing is left.
TokenOf(auth) ==
    IF auth.kind = "bearer" THEN auth.token
    ELSE [shape |-> "emptyHeader", alg |-> NoAlg, kid |-> NoKid,
          sig |-> DefaultSig, payload |-> NoPayload]

\* The X-Upstream header: absent, or a service name.
NoXUpstream == "none"
XUpstreamValues == {NoXUpstream, "supabase", "openai", "other", "unknown"} \cup InheritedProps

\* The table upstreamServices: the two entries of the file and one entry of
\* the kind the table is open to ("add additional upstream services as
\* needed"), whose headers define no Authorization.
NoHeader == [owner |-> "none", cred |-> "-"]
ServerCredential(c) == [owner |-> "server", cred |-> c]
ClientCredential == [owner |-> "client", cred |-> "jwt"]
ServiceNames == {"supabase", "openai", "other"}
UpstreamServices ==
    [n \in ServiceNames |->
        CASE n = "supabase" -> [baseUrl |-> "SUPABASE_URL",
                                authorization |-> ServerCredential("SUPABASE_SERVICE_ROLE_KEY")]
          [] n = "openai" -> [baseUrl |-> "https://api.openai.com/v1",
                              authorization |-> ServerCredential("OPENAI_API_KEY")]
          [] OTHER -> [baseUrl |-> "OTHER_URL", authorization |-> NoHeader]]

\* getUpstreamConfig and processUpstreamConfig: `upstreamServices[service]`
\* on a plain object.  An own entry is processed; a name Object.prototype
\* defines is truthy but has no baseUrl, so processing it throws a
\* TypeError; any other name throws "... not configured".
GetUpstreamConfig(service) ==
    IF service \in ServiceNames THEN "entry"
    ELSE IF service \in InheritedProps THEN "typeError"
    ELSE "notConfigured"

\* The headers forwardRequestToUpstream sends: every header of the request,
\* then the headers of the entry over them.
OutboundAuthorization(cfg, auth) ==
    IF cfg.authorization # NoHeader THEN cfg.authorization
    ELSE IF auth.kind = "none" THEN NoHeader
    ELSE ClientCredential

\* What the upstream does with a forwarded request.
UpstreamAnswers == {"ok200", "status500", "unreachable"}

\* HTTP responses of the gateway.
NoResp == [status |-> 0, error |-> "-", message |-> "-", details |-> "-"]
Response(status, error, message, details) ==
    [status |-> status, error |-> error, message |-> message, details |-> details]

\* Variant: no message is ever recognised.
MessageMentionsNothing(err, needle) == FALSE

\* `errorDetails.includes(needle)` on the message of what verifyJwt threw.
\* 'No keys found' is the message of the empty key set, 'Invalid token
\* format' that of the empty header segment; the message jose gives an
\* expired token is '"exp" claim timestamp check failed'.
MessageMentions(err, needle) ==
    CASE needle = "No keys found" -> err.kind = "KeySetFetchFailed" /\ err.detail = "nokeys"
      [] needle = "Invalid token format" -> err.kind = "MalformedToken"
      [] OTHER -> FALSE

\* handleJwtVerificationError, and the same lines inlined in src/src/index.ts.
HandleJwtVerificationError(err) ==
    IF MessageMentions(err, "No keys found")
    THEN Response(503, "Unauthorized", "Authentication configuration error",
                  "No JWKS keys available for token verification")
    ELSE IF MessageMentions(err, "expired")
    THEN Response(401, "Unauthorized", "Token expired", err.kind)
    ELSE IF MessageMentions(err, "Invalid token format")
    THEN Response(401, "Unauthorized", "Invalid token format", err.kind)
    ELSE Response(401, "Unauthorized", "Invalid or expired token", err.kind)

\* The answer to a request without a token: src/src/index.ts and part_002
\* answer directly; verifyAuthToken throws an Error that its caller hands to
\* handleJwtVerificationError.
MissingTokenResponse(mw) ==
    IF mw THEN HandleJwtVerificationError(Fail("Missing Authorization token", "-").err)
    ELSE Response(401, "Unauthorized", "Missing Authorization token", "-")

\* HTTP methods, and what a client can send as the body of a request:
\* nothing, a JSON document (an object with academicUsername and
\* academicPassword, the object {}, the value null), text that is not JSON,
\* or bytes that are not valid UTF-8.
Methods == {"GET", "HEAD", "POST", "PUT", "PATCH", "DELETE"}
NoBody == "-"
Bodies == {NoBody, "credentials", "emptyObject", "null", "text", "bytes"}

\* `await request.text()`: the body decoded as UTF-8; bytes that are not
\* valid UTF-8 come back as replacement characters.
RequestText(body) == IF body = "bytes" THEN "replacement-characters" ELSE body

\* `['POST', 'PATCH', 'PUT'].includes(method) ? await request.text() : null`.
ReadBody(method, body) ==
    IF method \in {"POST", "PATCH", "PUT"} THEN RequestText(body) ELSE NoBody

\* `body: ['GET', 'HEAD'].includes(method) ? undefined : jsonBody`.
ForwardedBody(method, jsonBody) ==
    IF method \in {"GET", "HEAD"} THEN NoBody ELSE jsonBody

\* Requests: the route, the two headers, whether the protected route goes
\* through verifyAuthToken (src/src/routes/database.ts), the method and the
\* body.
NoFault == "none"
NoReq ==
    [route |-> "-", auth |-> NoAuthHeader, xup |-> NoXUpstream, mw |-> FALSE,
     method |-> "-", body |-> NoBody, fault |-> NoFault]
ProtectedRequests(T) ==
    [route : {"rest"}, auth : {NoAuthHeader, EmptyBearer} \cup {Bearer(t) : t \in T},
     xup : {NoXUpstream}, mw : BOOLEAN, method : {"GET"}, body : {NoBody},
     fault : {NoFault}]
GoodToken ==
    [shape |-> "ok", alg |-> "HS256", kid |-> NoKid,
     sig |-> [alg |-> "HS256", key |-> Secret], payload |-> DefaultPayload]
BadToken ==
    [shape |-> "ok", alg |-> "HS256", kid |-> NoKid, sig |-> DefaultSig, payload |-> DefaultPayload]
UpstreamRequests ==
    [route : {"upstream"}, auth : {NoAuthHeader, Bearer(GoodToken), Bearer(BadToken)},
     xup : XUpstreamValues, mw : {FALSE}, method : {"GET"}, body : {NoBody},
     fault : {NoFault}]
\* An outbound request: where it goes, the Authorization header it has, its
\* method and its body.
NoOut == [to |-> NoUrl, authorization |-> NoHeader, method |-> "-", body |-> NoBody]

\* ------------------------------------------------- the worker's handler
\* What can go wrong before a route is chosen: a binding of env is missing
\* (SUPABASE_URL, or one of the keys), or reading the body rejects.
Faults == {NoFault, "noSupabaseUrl", "noServiceRoleKey", "bodyUnreadable"}

\* Variant: the exception leaves the handler.
OuterCatchRethrows(message) == NoResp

\* The catch around the whole of fetch.
OuterCatch(message) == Response(500, "Internal server error", message, "-")

\* `JSON.parse(jsonBody)`: the value, or a SyntaxError.
JsonParse(text) ==
    IF text \in {"credentials", "emptyObject", "null"} THEN text ELSE "syntaxError"

\* The paths of the worker besides /rest/v1 and the X-Upstream gateway.
ToolRoutes == {"tools/password-reset", "tools/verify-user-exists", "tools/unknown"}
AuthRoutes == {"auth/login", "auth/user", "auth/unknown"}
NoRoute == "unknown"

\* What the external services answer: the user lookup in Supabase and the
\* login form of the academic system.
LookupAnswers == {"found", "empty", "status500", "unreachable"}
AcademicAnswers == {"302", "200", "500", "unreachable"}

\* Variant: any answer of the academic system counts as a valid login.
CredentialsValidAlways(answer) == TRUE

\* `isValid: response.status === 302`.
CredentialsValid(answer) == answer = "302"

\* findUserByAcademicUsername: the id of the first user of a 2xx answer,
\* null for an empty list, for a non-2xx answer and for a rejected fetch.
UserIdOf(answer) == IF answer = "found" THEN "uid" ELSE "null"

\* The requests the three steps of a password reset send.
LookupRequest ==
    [to |-> "SUPABASE_URL", authorization |-> ServerCredential("SUPABASE_SERVICE_ROLE_KEY"),
     method |-> "GET", body |-> NoBody]
AcademicRequest ==
    [to |-> "https://academico.unp.edu.pe", authorization |-> NoHeader,
     method |-> "POST", body |-> "form"]
UpdateRequest ==
    [to |-> "SUPABASE_URL", authorization |-> ServerCredential("SUPABASE_SERVICE_ROLE_KEY"),
     method |-> "PUT", body |-> "password"]

\* ------------------------------------------------------- masking emails
\* Strings as sequences of characters, up to a length that leaves room for
\* more than three characters on either side of an '@'.
MaxEmailLen == 6
Chars == {"a", "b", "@"}
Strings == UNION { [1..n -> Chars] : n \in 0..MaxEmailLen }

\* Email addresses: one '@' with something before it and something after.
AtOf(s) == CHOOSE i \in DOMAIN s : s[i] = "@"
Emails ==
    { s \in Strings :
        /\ Cardinality({ i \in DOMAIN s : s[i] = "@" }) = 1
        /\ s[1] # "@" /\ s[Len(s)] # "@" }

Mask == << "*", "*", "*", "*" >>

\* `email.replace(/^(.{3})(.*)(@.*)$/, '$1****$3')`: three characters, then
\* as many as possible, then the rest from an '@' on; a string the pattern
\* does not match is returned as it is.
MaskEmail(s) ==
    LET ats == { i \in DOMAIN s : i >= 4 /\ s[i] = "@" }
    IN  IF ats = {} THEN s
        ELSE LET at == CHOOSE i \in ats : \A j \in ats : j <= i
             IN  SubSeq(s, 1, 3) \o Mask \o SubSeq(s, at, Len(s))

\* A log line about an email: which statement wrote it, the address, and
\* the text written.
LogSites == {"logJwtPayload", "parseAndLogRequestBody", "findUserByAcademicUsername"}
NoEmailLog == [site |-> "-", email |-> << >>, text |-> << >>]

\* ------------------------------------------------------------------ state
VARIABLES
    impl,       \* which version of verifyJwt the process runs
    cachedJWK,  \* the module-level cache of getJWKS
    endpoint,   \* what the JWKS URL answers at present
    jwksDone,   \* history: some getJWKS call has completed successfully
    pc,         \* per call slot: where the call stands
    call,       \* per call slot: "verifyJwt", "getJWKS" or "-"
    tok,        \* per call slot: the token of the verifyJwt call
    res,        \* per call slot: the keys array of the fetched response
    jwks,       \* per call slot: the mapping getJWKS returned
    result,     \* per call slot: what the call returned or threw
    log,        \* per call slot: history of what the call did, in order
    seen,       \* per call slot: history, the cache as getJWKS found it
    after,      \* per call slot: history, getJWKS started after a success
    req,        \* per call slot: the HTTP request being handled, if any
    resp,       \* per call slot: the HTTP response of the gateway
    out,        \* per call slot: the request sent to the upstream
    url,        \* per call slot: the JWKS URL the call was given
    emailLog    \* the last log line that was written about an email address

gwVars == << req, resp, out >>
vars ==
    << impl, cachedJWK, endpoint, jwksDone, pc, call, tok, res, jwks, result, log, seen, after,
       req, resp, out, url, emailLog >>

Init ==
    /\ impl \in Impls
    /\ cachedJWK = NoCache
    /\ endpoint \in EndpointStates
    /\ jwksDone = FALSE
    /\ pc = [p \in Procs |-> "idle"]
    /\ call = [p \in Procs |-> "-"]
    /\ tok = [p \in Procs |-> NoToken]
    /\ res = [p \in Procs |-> << >>]
    /\ jwks = [p \in Procs |-> NoCache]
    /\ result = [p \in Procs |-> NoResult]
    /\ log = [p \in Procs |-> << >>]
    /\ seen = [p \in Procs |-> NoCache]
    /\ after = [p \in Procs |-> FALSE]
    /\ req = [p \in Procs |-> NoReq]
    /\ resp = [p \in Procs |-> NoResp]
    /\ out = [p \in Procs |-> NoOut]
    /\ emailLog = NoEmailLog
    /\ url = [p \in Procs |-> NoUrl]

\* What verifyJwt throws: src/src/jwt.ts re-throws every failure as a new
\* Error whose message embeds the original one, part_003 re-throws it as is.
Throw(r) == IF impl = "legacy" THEN [r EXCEPT !.err.wrapped = TRUE] ELSE r

\* ---------------------------------------------------------------- actions
\* verifyJwt is entered: the header is decoded, then stage 1 is started.
EnterVerifyJwt(p, t) ==
    /\ pc[p] = "idle"
    /\ call' = [call EXCEPT ![p] = "verifyJwt"]
    /\ url' = [url EXCEPT ![p] = JwkUrl]
    /\ tok' = [tok EXCEPT ![p] = t]
    /\ IF ParseJwtHeader(t).r.ok
       THEN /\ pc' = [pc EXCEPT ![p] = "stage1"]
            /\ log' = [log EXCEPT ![p] = << "parse" >>]
            /\ UNCHANGED result
       ELSE /\ pc' = [pc EXCEPT ![p] = "done"]
            /\ log' = [log EXCEPT ![p] = << "parse_fail" >>]
            /\ result' = [result EXCEPT ![p] = Throw(ParseJwtHeader(t).r)]
    /\ UNCHANGED << impl, cachedJWK, endpoint, jwksDone, res, jwks, seen, after, emailLog >>

\* verifyJwt is called on its own.
VerifyJwt(p, t) ==
    /\ EnterVerifyJwt(p, t)
    /\ UNCHANGED gwVars

\* The synchronous head of getJWKS: a cached mapping is returned at once,
\* otherwise the fetch is issued.  next is where the caller goes on a hit.
EnterGetJWKS(p, events, next) ==
    /\ seen' = [seen EXCEPT ![p] = cachedJWK]
    /\ after' = [after EXCEPT ![p] = jwksDone]
    /\ IF CacheHit(cachedJWK)
       THEN /\ jwks' = [jwks EXCEPT ![p] = cachedJWK]
            /\ pc' = [pc EXCEPT ![p] = next]
            /\ log' = [log EXCEPT ![p] = log[p] \o events \o << "getJWKS", "cached" >>]
       ELSE /\ pc' = [pc EXCEPT ![p] = "fetching"]
            /\ log' = [log EXCEPT ![p] = log[p] \o events \o << "getJWKS", "fetch" >>]
            /\ UNCHANGED jwks

\* Stage 1 settles: success returns the payload; failure goes on to getJWKS
\* when the header allows it and is the terminal error otherwise.
Stage1(p) ==
    /\ pc[p] = "stage1"
    /\ LET h == ParseJwtHeader(tok[p])
           r == Stage1Verify(tok[p], h.alg)
       IN  IF r.ok
           THEN /\ pc' = [pc EXCEPT ![p] = "done"]
                /\ result' = [result EXCEPT ![p] = r]
                /\ log' = [log EXCEPT ![p] = Append(log[p], "stage1_ok")]
                /\ UNCHANGED << jwks, seen, after >>
           ELSE IF UseJwks(h.kid, h.alg)
           THEN /\ EnterGetJWKS(p, << "stage1_fail" >>, "stage2")
                /\ UNCHANGED result
           ELSE /\ pc' = [pc EXCEPT ![p] = "done"]
                /\ result' = [result EXCEPT ![p] = Throw(Fail("NoUsableVerificationMethod", "-"))]
                /\ log' = [log EXCEPT ![p] = Append(log[p], "stage1_fail")]
                /\ UNCHANGED << jwks, seen, after >>
    /\ UNCHANGED << impl, cachedJWK, endpoint, jwksDone, call, tok, res >>
    /\ UNCHANGED gwVars
    /\ UNCHANGED url
    /\ UNCHANGED emailLog

\* getJWKS is called on its own, with the URL u.
GetJWKS(p, u) ==
    /\ pc[p] = "idle"
    /\ call' = [call EXCEPT ![p] = "getJWKS"]
    /\ url' = [url EXCEPT ![p] = u]
    /\ EnterGetJWKS(p, << >>, "done")
    /\ result' = [result EXCEPT ![p] = IF CacheHit(cachedJWK) THEN Ok(NoPayload) ELSE NoResult]
    /\ UNCHANGED << impl, cachedJWK, endpoint, jwksDone, tok, res, emailLog >>
    /\ UNCHANGED gwVars

\* Variant: the failure is swallowed and the call returns normally.
JwksThrowSwallowed(p, r) == Ok(NoPayload)

\* What a getJWKS failure becomes in the caller.
JwksThrow(p, r) == IF call[p] = "verifyJwt" THEN Throw(r) ELSE r

\* The fetch of the JWKS URL settles: rejected, a non-2xx status, no keys, or
\* a keys array, which goes on to the import loop.
FetchReturn(p) ==
    /\ pc[p] = "fetching"
    /\ LET answer == AnswerOf(url[p], endpoint) IN
       IF answer \in {"down", "status500", "nokeys"}
       THEN /\ pc' = [pc EXCEPT ![p] = "done"]
            /\ result' = [result EXCEPT ![p] =
                   JwksThrow(p, Fail("KeySetFetchFailed",
                       CASE answer = "down" -> "network"
                         [] answer = "status500" -> "status"
                         [] OTHER -> "nokeys"))]
            /\ log' = [log EXCEPT ![p] = Append(log[p], "fetch_fail")]
            /\ UNCHANGED res
       ELSE /\ pc' = [pc EXCEPT ![p] = "importing"]
            /\ res' = [res EXCEPT ![p] = KeysOf(answer)]
            /\ log' = [log EXCEPT ![p] = Append(log[p], "fetch_ok")]
            /\ UNCHANGED result
    /\ UNCHANGED << impl, cachedJWK, endpoint, jwksDone, call, tok, jwks, seen, after >>
    /\ UNCHANGED gwVars
    /\ UNCHANGED url
    /\ UNCHANGED emailLog

\* The import loop ends: a failed import throws, otherwise the mapping is
\* stored in the cache and returned.
ImportDone(p) ==
    /\ pc[p] = "importing"
    /\ LET i == ImportKeys(res[p], EmptyRecord)
       IN  IF i.ok
           THEN /\ cachedJWK' = Cached(i.map)
                /\ jwks' = [jwks EXCEPT ![p] = Cached(i.map)]
                /\ jwksDone' = TRUE
                /\ pc' = [pc EXCEPT ![p] = IF call[p] = "verifyJwt" THEN "stage2" ELSE "done"]
                /\ result' = [result EXCEPT ![p] =
                       IF call[p] = "verifyJwt" THEN result[p] ELSE Ok(NoPayload)]
                /\ log' = [log EXCEPT ![p] = Append(log[p], "import_ok")]
           ELSE /\ pc' = [pc EXCEPT ![p] = "done"]
                /\ result' = [result EXCEPT ![p] = JwksThrow(p, Fail("KeySetFetchFailed", "import"))]
                /\ log' = [log EXCEPT ![p] = Append(log[p], "import_fail")]
                /\ UNCHANGED << cachedJWK, jwks, jwksDone >>
    /\ UNCHANGED << impl, endpoint, call, tok, res, seen, after >>
    /\ UNCHANGED gwVars
    /\ UNCHANGED url
    /\ UNCHANGED emailLog

\* Stage 2: the kid is looked up in the mapping getJWKS returned and the
\* token is verified with what was found.
Stage2(p) ==
    /\ pc[p] = "stage2"
    /\ LET h == ParseJwtHeader(tok[p])
           r == Stage2Verify(tok[p], h.kid, jwks[p].map)
       IN  /\ result' = [result EXCEPT ![p] = IF r.ok THEN r ELSE Throw(r)]
           /\ log' = [log EXCEPT ![p] =
                  log[p] \o (IF LookupKey(jwks[p].map, h.kid) = Undefined
                             THEN << "lookup_miss" >>
                             ELSE << "lookup", IF r.ok THEN "verify2_ok" ELSE "verify2_fail" >>)]
    /\ pc' = [pc EXCEPT ![p] = "done"]
    /\ UNCHANGED << impl, cachedJWK, endpoint, jwksDone, call, tok, res, jwks, seen, after >>
    /\ UNCHANGED gwVars
    /\ UNCHANGED url
    /\ UNCHANGED emailLog

\* The caller has its answer, or the client its response; the slot is free
\* for the next call.
Return(p) ==
    /\ \/ pc[p] = "done" /\ req[p] = NoReq
       \/ pc[p] = "responded"
    /\ pc' = [pc EXCEPT ![p] = "idle"]
    /\ call' = [call EXCEPT ![p] = "-"]
    /\ tok' = [tok EXCEPT ![p] = NoToken]
    /\ res' = [res EXCEPT ![p] = << >>]
    /\ jwks' = [jwks EXCEPT ![p] = NoCache]
    /\ result' = [result EXCEPT ![p] = NoResult]
    /\ log' = [log EXCEPT ![p] = << >>]
    /\ seen' = [seen EXCEPT ![p] = NoCache]
    /\ after' = [after EXCEPT ![p] = FALSE]
    /\ req' = [req EXCEPT ![p] = NoReq]
    /\ resp' = [resp EXCEPT ![p] = NoResp]
    /\ out' = [out EXCEPT ![p] = NoOut]
    /\ url' = [url EXCEPT ![p] = NoUrl]
    /\ UNCHANGED << impl, cachedJWK, endpoint, jwksDone, emailLog >>

\* The identity provider: the endpoint goes down, comes back, rotates keys.
EndpointChange(e) ==
    /\ e # endpoint
    /\ endpoint' = e
    /\ UNCHANGED << impl, cachedJWK, jwksDone, pc, call, tok, res, jwks, result, log, seen, after >>
    /\ UNCHANGED gwVars
    /\ UNCHANGED url
    /\ UNCHANGED emailLog

\* Variant: the handler goes on to the upstream whatever verifyJwt did.
ReturnedAlways(r) == TRUE

\* `await verifyJwt(...)` returns instead of throwing.
Returned(r) == r.ok

\* A request on /rest/v1: without a token it is answered at once, otherwise
\* verifyJwt is called with the token.
HandleProtectedRoute(p, r) ==
    /\ pc[p] = "idle"
    /\ r.mw => impl = "core"
    /\ req' = [req EXCEPT ![p] = r]
    /\ IF TokenMissing(r.auth)
       THEN /\ pc' = [pc EXCEPT ![p] = "responded"]
            /\ resp' = [resp EXCEPT ![p] = MissingTokenResponse(r.mw)]
            /\ UNCHANGED << impl, cachedJWK, endpoint, jwksDone, call, tok, res, jwks,
                            result, log, seen, after, url, emailLog >>
       ELSE /\ EnterVerifyJwt(p, TokenOf(r.auth))
            /\ UNCHANGED resp
    /\ UNCHANGED out

\* verifyJwt has settled for a request on /rest/v1: on a return the request
\* is sent to Supabase with the service-role key, on a throw the error is
\* turned into the response.
ProtectedRouteResume(p) ==
    /\ pc[p] = "done"
    /\ req[p].route = "rest"
    /\ IF Returned(result[p])
       THEN /\ pc' = [pc EXCEPT ![p] = "forwarding"]
            /\ out' = [out EXCEPT ![p] =
                   [to |-> UpstreamServices["supabase"].baseUrl,
                    authorization |-> ServerCredential("SUPABASE_SERVICE_ROLE_KEY"),
                    method |-> req[p].method,
                    body |-> ForwardedBody(req[p].method,
                                           ReadBody(req[p].method, req[p].body))]]
            /\ UNCHANGED resp
       ELSE /\ pc' = [pc EXCEPT ![p] = "responded"]
            /\ resp' = [resp EXCEPT ![p] = HandleJwtVerificationError(result[p].err)]
            /\ UNCHANGED out
    /\ UNCHANGED << impl, cachedJWK, endpoint, jwksDone, call, tok, res, jwks, result,
                    log, seen, after, req >>
    /\ UNCHANGED url
    /\ UNCHANGED emailLog

\* A request on any other route: handleUpstreamRoute picks the upstream
\* named by X-Upstream and forwardRequestToUpstream sends the request.
HandleUpstreamRoute(p, r) ==
    /\ pc[p] = "idle"
    /\ req' = [req EXCEPT ![p] = r]
    /\ IF r.xup = NoXUpstream
       THEN /\ resp' = [resp EXCEPT ![p] =
                   Response(400, "Bad Request", "Missing X-Upstream header", "-")]
            /\ pc' = [pc EXCEPT ![p] = "responded"]
            /\ UNCHANGED out
       ELSE IF GetUpstreamConfig(r.xup) = "notConfigured"
       THEN /\ resp' = [resp EXCEPT ![p] =
                   Response(400, "Bad Request", "Invalid upstream service", "-")]
            /\ pc' = [pc EXCEPT ![p] = "responded"]
            /\ UNCHANGED out
       ELSE IF GetUpstreamConfig(r.xup) = "typeError"
       THEN /\ resp' = [resp EXCEPT ![p] = Response(500, "Gateway Error", "TypeError", "-")]
            /\ pc' = [pc EXCEPT ![p] = "responded"]
            /\ UNCHANGED out
       ELSE /\ out' = [out EXCEPT ![p] =
                   [to |-> UpstreamServices[r.xup].baseUrl,
                    authorization |-> OutboundAuthorization(UpstreamServices[r.xup], r.auth),
                    method |-> r.method,
                    body |-> ForwardedBody(r.method, ReadBody(r.method, r.body))]]
            /\ pc' = [pc EXCEPT ![p] = "forwarding"]
            /\ UNCHANGED resp
    /\ UNCHANGED << impl, cachedJWK, endpoint, jwksDone, call, tok, res, jwks, result,
                    log, seen, after >>
    /\ UNCHANGED url
    /\ UNCHANGED emailLog

\* The fetch to the upstream settles: its response is relayed, a rejected
\* fetch becomes a 500 on /rest/v1 and a 502 on the service gateway.
UpstreamSettles(p, a) ==
    /\ pc[p] = "forwarding"
    /\ pc' = [pc EXCEPT ![p] = "responded"]
    /\ resp' = [resp EXCEPT ![p] =
           CASE a = "ok200" -> Response(200, "-", "relayed", "-")
             [] a = "status500" -> Response(500, "-", "relayed", "-")
             [] OTHER -> IF req[p].route = "rest"
                         THEN Response(500, "Failed to fetch data from database", "fetch failed", "-")
                         ELSE IF req[p].route \in AuthRoutes
                         THEN Response(500, "Authentication service unavailable", "fetch failed", "-")
                         ELSE Response(502, "Gateway Error", "fetch failed", "-")]
    /\ UNCHANGED << impl, cachedJWK, endpoint, jwksDone, call, tok, res, jwks, result,
                    log, seen, after, req, out >>
    /\ UNCHANGED url
    /\ UNCHANGED emailLog

\* What a handler that calls neither verifyJwt nor getJWKS leaves alone.
callVars ==
    << impl, cachedJWK, endpoint, jwksDone, call, tok, res, jwks, result, seen, after, url, emailLog >>

\* The handler returns `response` for the request r without sending anything.
Respond(p, r, response) ==
    /\ req' = [req EXCEPT ![p] = r]
    /\ resp' = [resp EXCEPT ![p] = response]
    /\ pc' = [pc EXCEPT ![p] = "responded"]
    /\ UNCHANGED << out, log >>
    /\ UNCHANGED callVars

\* The handler sends `request` for the request r and awaits the answer.
Send(p, r, request, next, events) ==
    /\ req' = [req EXCEPT ![p] = r]
    /\ out' = [out EXCEPT ![p] = request]
    /\ pc' = [pc EXCEPT ![p] = next]
    /\ log' = [log EXCEPT ![p] = log[p] \o events]
    /\ UNCHANGED resp
    /\ UNCHANGED callVars

\* The start of fetch throws or finds the configuration incomplete: a
\* missing SUPABASE_URL makes `SUPABASE_URL.startsWith` throw in
\* src/src/index.ts and fails the check of the bindings in the other
\* versions; a body that cannot be read rejects `request.text()`, which is
\* called for POST, PATCH and PUT only.
HandlerFault(p, r) ==
    /\ pc[p] = "idle"
    /\ r.fault # NoFault
    /\ r.fault = "bodyUnreadable" => r.method \in {"POST", "PATCH", "PUT"}
    /\ \E response \in
           CASE r.fault = "noSupabaseUrl" ->
                    {OuterCatch("TypeError"),
                     Response(500, "Server configuration error", "Missing environment variables", "-")}
             [] r.fault = "noServiceRoleKey" ->
                    {Response(500, "Server configuration error", "Missing environment variables", "-")}
             [] OTHER -> {OuterCatch("body")} :
           Respond(p, r, response)

\* The fallback of src/src/index.ts: no route matches the path.
NoRouteMatches(p, r) ==
    /\ pc[p] = "idle"
    /\ r.route = NoRoute
    /\ Respond(p, r, Response(404, "Not Found", "Route does not exist", "-"))

\* handleAuthRoutes and proxyAuth: the login is proxied to Supabase with the
\* anon key, /auth/user with the client's Authorization header on top.
HandleAuthRoute(p, r) ==
    /\ pc[p] = "idle"
    /\ r.route \in AuthRoutes
    /\ IF r.route = "auth/login" /\ r.method = "POST"
       THEN Send(p, r, [to |-> "SUPABASE_URL", authorization |-> NoHeader,
                        method |-> r.method,
                        body |-> ForwardedBody(r.method, ReadBody(r.method, r.body))],
                 "forwarding", << >>)
       ELSE IF r.route = "auth/user" /\ r.method = "GET"
       THEN IF r.auth.kind = "none"
            THEN Respond(p, r, Response(401, "Missing Authorization header", "-", "-"))
            ELSE Send(p, r, [to |-> "SUPABASE_URL", authorization |-> ClientCredential,
                             method |-> r.method,
                             body |-> ForwardedBody(r.method, ReadBody(r.method, r.body))],
                      "forwarding", << >>)
       ELSE Respond(p, r, Response(404, "Not Found", "Route does not exist", "-"))

\* handleToolsRoute, and handlePasswordReset or handleVerifyUserExists up to
\* the lookup of the user.
HandleToolsRoute(p, r) ==
    /\ pc[p] = "idle"
    /\ r.route \in ToolRoutes
    /\ LET jsonBody == ReadBody(r.method, r.body)
           requestBody == JsonParse(jsonBody)
       IN  IF r.route = "tools/unknown" \/ r.method # "POST"
           THEN Respond(p, r, Response(404, "Not Found", "Tool endpoint not found", "-"))
           ELSE IF jsonBody = NoBody
           THEN Respond(p, r, Response(400, "Bad Request", "Request body is required", "-"))
           ELSE IF requestBody = "syntaxError"
           THEN Respond(p, r, Response(400, "Bad Request", "Invalid JSON in request body", "-"))
           ELSE IF requestBody = "null"
           THEN Respond(p, r, Response(500, "Service Unavailable", "TypeError", "-"))
           ELSE IF requestBody = "emptyObject"
           THEN Respond(p, r, Response(400, "Bad Request", "Missing required fields", "-"))
           ELSE Send(p, r, LookupRequest, "lookup", << "lookup" >>)

\* The lookup settles.  Without a user id handlePasswordReset answers 404
\* and handleVerifyUserExists 200 with exists: false; with one, the
\* password reset goes on to the academic system.
LookupSettles(p, a) ==
    /\ pc[p] = "lookup"
    /\ LET event == CASE a = "found" -> "lookup_found"
                      [] a = "empty" -> "lookup_empty"
                      [] a = "status500" -> "lookup_status500"
                      [] OTHER -> "lookup_unreachable"
       IN  IF req[p].route = "tools/verify-user-exists"
           THEN /\ resp' = [resp EXCEPT ![p] =
                       Response(200, "-", IF UserIdOf(a) = "null" THEN "exists: false"
                                          ELSE "exists: true", "-")]
                /\ pc' = [pc EXCEPT ![p] = "responded"]
                /\ log' = [log EXCEPT ![p] = log[p] \o << event >>]
                /\ UNCHANGED out
           ELSE IF UserIdOf(a) = "null"
           THEN /\ resp' = [resp EXCEPT ![p] = Response(404, "Not Found", a, "-")]
                /\ pc' = [pc EXCEPT ![p] = "responded"]
                /\ log' = [log EXCEPT ![p] = log[p] \o << event >>]
                /\ UNCHANGED out
           ELSE /\ out' = [out EXCEPT ![p] = AcademicRequest]
                /\ pc' = [pc EXCEPT ![p] = "validating"]
                /\ log' = [log EXCEPT ![p] = log[p] \o << event, "validate" >>]
                /\ UNCHANGED resp
    /\ UNCHANGED req
    /\ UNCHANGED callVars

\* The academic system settles: a rejected fetch is a 500, any answer but
\* 302 a 401, and after a 302 the password is updated.
AcademicSettles(p, a) ==
    /\ pc[p] = "validating"
    /\ LET event == CASE a = "302" -> "validate_302"
                      [] a = "200" -> "validate_200"
                      [] a = "500" -> "validate_500"
                      [] OTHER -> "validate_unreachable"
       IN  IF a = "unreachable"
           THEN /\ resp' = [resp EXCEPT ![p] =
                       Response(500, "Academic Validation Error", "fetch failed", "-")]
                /\ pc' = [pc EXCEPT ![p] = "responded"]
                /\ log' = [log EXCEPT ![p] = log[p] \o << event >>]
                /\ UNCHANGED out
           ELSE IF ~CredentialsValid(a)
           THEN /\ resp' = [resp EXCEPT ![p] = Response(401, "Unauthorized", a, "-")]
                /\ pc' = [pc EXCEPT ![p] = "responded"]
                /\ log' = [log EXCEPT ![p] = log[p] \o << event >>]
                /\ UNCHANGED out
           ELSE /\ out' = [out EXCEPT ![p] = UpdateRequest]
                /\ pc' = [pc EXCEPT ![p] = "updating"]
                /\ log' = [log EXCEPT ![p] = log[p] \o << event, "update" >>]
                /\ UNCHANGED resp
    /\ UNCHANGED req
    /\ UNCHANGED callVars

\* The answers of Supabase to the update of the password.
UpdateAnswers == {"ok200", "status422", "status500", "unreachable"}

\* The update settles: its response is relayed by makeProxyResponse, a
\* rejected fetch reaches the catch of handlePasswordReset.
UpdateSettles(p, a) ==
    /\ pc[p] = "updating"
    /\ pc' = [pc EXCEPT ![p] = "responded"]
    /\ resp' = [resp EXCEPT ![p] =
           CASE a = "ok200" -> Response(200, "-", "relayed", "-")
             [] a = "status422" -> Response(422, "-", "relayed", "-")
             [] a = "status500" -> Response(500, "-", "relayed", "-")
             [] OTHER -> Response(500, "Service Unavailable", "fetch failed", "-")]
    /\ log' = [log EXCEPT ![p] = log[p] \o
           << CASE a = "ok200" -> "update_200"
                [] a = "status422" -> "update_422"
                [] a = "status500" -> "update_500"
                [] OTHER -> "update_unreachable" >>]
    /\ UNCHANGED << req, out >>
    /\ UNCHANGED callVars

\* What the statements that log an email leave alone.
workerVars ==
    << impl, cachedJWK, endpoint, jwksDone, pc, call, tok, res, jwks, result, log, seen, after,
       req, resp, out, url >>

\* logJwtPayload logs the email claim of a verified token, masked.
LogJwtPayload(e) ==
    /\ emailLog' = [site |-> "logJwtPayload", email |-> e, text |-> MaskEmail(e)]
    /\ UNCHANGED workerVars

\* parseAndLogRequestBody logs the email field of a JSON body, masked.
ParseAndLogRequestBody(e) ==
    /\ emailLog' = [site |-> "parseAndLogRequestBody", email |-> e, text |-> MaskEmail(e)]
    /\ UNCHANGED workerVars

\* findUserByAcademicUsername logs the address it looks up, as it is.
LogUserLookup(e) ==
    /\ emailLog' = [site |-> "findUserByAcademicUsername", email |-> e, text |-> e]
    /\ UNCHANGED workerVars

\* ---------------------------------------------------------- specifications
\* The statements that write an email to the log, over every address.
NextMask ==
    \/ \E e \in Emails : LogJwtPayload(e)
    \/ \E e \in Emails : ParseAndLogRequestBody(e)
    \/ \E e \in Emails : LogUserLookup(e)
SpecMask == Init /\ [][NextMask]_vars

\* The steps of verifyJwt and getJWKS.
NextOf(P, T, U) ==
    \/ \E p \in P, t \in T : VerifyJwt(p, t)
    \/ \E p \in P : Stage1(p)
    \/ \E p \in P, u \in U : GetJWKS(p, u)
    \/ \E p \in P : FetchReturn(p)
    \/ \E p \in P : ImportDone(p)
    \/ \E p \in P : Stage2(p)
    \/ \E p \in P : Return(p)
    \/ \E e \in EndpointStates : EndpointChange(e)

\* The steps of the gateway around them.
NextGateway(P, T) ==
    \/ \E p \in P, r \in ProtectedRequests(T) : HandleProtectedRoute(p, r)
    \/ \E p \in P : ProtectedRouteResume(p)
    \/ \E p \in P, r \in UpstreamRequests : HandleUpstreamRoute(p, r)
    \/ \E p \in P, a \in UpstreamAnswers : UpstreamSettles(p, a)

\* One call or request at a time, over every token.
Next == NextOf({1}, Tokens, Urls) \/ NextGateway({1}, Tokens)
Spec == Init /\ [][Next]_vars

\* Several calls in flight, over the tokens that matter to the cache.
NextConc == NextOf(Procs, ConcTokens, {JwkUrl})
SpecConc == Init /\ [][NextConc]_vars

\* The requests of the worker: every route, with the methods and bodies
\* that tell the routes and the reading of the body apart.
WorkerTokens == ConcTokens \cup {BadToken}
RestRequests ==
    [route : {"rest"}, auth : {NoAuthHeader} \cup {Bearer(t) : t \in WorkerTokens},
     xup : {NoXUpstream}, mw : BOOLEAN, method : {"GET", "POST", "DELETE"},
     body : {NoBody, "credentials"}, fault : {NoFault}]
GatewayRequests ==
    [route : {"upstream"}, auth : {NoAuthHeader, Bearer(GoodToken)},
     xup : {NoXUpstream, "supabase", "unknown", "constructor"}, mw : {FALSE}, method : Methods,
     body : Bodies, fault : {NoFault}]
OtherRequests ==
    [route : ToolRoutes \cup AuthRoutes \cup {NoRoute}, auth : {NoAuthHeader, Bearer(GoodToken)},
     xup : {NoXUpstream}, mw : {FALSE}, method : {"GET", "POST", "DELETE"},
     body : Bodies, fault : {NoFault}]
FaultyRequests ==
    [route : {"rest", "upstream", "tools/password-reset"}, auth : {Bearer(GoodToken)},
     xup : {NoXUpstream}, mw : {FALSE}, method : {"GET", "POST"},
     body : {"credentials"}, fault : Faults \ {NoFault}]

\* The steps of the worker's fetch handler, one request per slot.
NextWorker(P) ==
    \/ \E p \in P, r \in FaultyRequests : HandlerFault(p, r)
    \/ \E p \in P, r \in RestRequests : HandleProtectedRoute(p, r)
    \/ \E p \in P : Stage1(p)
    \/ \E p \in P : FetchReturn(p)
    \/ \E p \in P : ImportDone(p)
    \/ \E p \in P : Stage2(p)
    \/ \E p \in P : ProtectedRouteResume(p)
    \/ \E p \in P, r \in GatewayRequests : HandleUpstreamRoute(p, r)
    \/ \E p \in P, r \in OtherRequests : HandleAuthRoute(p, r)
    \/ \E p \in P, r \in OtherRequests : HandleToolsRoute(p, r)
    \/ \E p \in P, r \in OtherRequests : NoRouteMatches(p, r)
    \/ \E p \in P, a \in LookupAnswers : LookupSettles(p, a)
    \/ \E p \in P, a \in AcademicAnswers : AcademicSettles(p, a)
    \/ \E p \in P, a \in UpdateAnswers : UpdateSettles(p, a)
    \/ \E p \in P, a \in UpstreamAnswers : UpstreamSettles(p, a)
    \/ \E p \in P : Return(p)
    \/ \E e \in EndpointStates : EndpointChange(e)

\* One request at a time through the whole handler.
SpecWorker == Init /\ [][NextWorker({1})]_vars

\* The same, where every promise the handler awaits settles: a fetch
\* resolves or rejects, and the continuation of an await is run.
SpecWorkerFair ==
    /\ SpecWorker
    /\ WF_vars(\E p \in {1} : Stage1(p))
    /\ WF_vars(\E p \in {1} : FetchReturn(p))
    /\ WF_vars(\E p \in {1} : ImportDone(p))
    /\ WF_vars(\E p \in {1} : Stage2(p))
    /\ WF_vars(\E p \in {1} : ProtectedRouteResume(p))
    /\ WF_vars(\E p \in {1}, a \in LookupAnswers : LookupSettles(p, a))
    /\ WF_vars(\E p \in {1}, a \in AcademicAnswers : AcademicSettles(p, a))
    /\ WF_vars(\E p \in {1}, a \in UpdateAnswers : UpdateSettles(p, a))
    /\ WF_vars(\E p \in {1}, a \in UpstreamAnswers : UpstreamSettles(p, a))

TypeOK ==
    /\ impl \in Impls
    /\ endpoint \in EndpointStates
    /\ jwksDone \in BOOLEAN
    /\ \A p \in Procs : pc[p] \in {"idle", "stage1", "fetching", "importing", "stage2", "done",
                                 "forwarding", "lookup", "validating", "updating",
                                 "responded"}
    /\ \A p \in Procs : resp[p].status \in {0, 200, 400, 401, 404, 422, 500, 502, 503}

\* ------------------------------------------------- vocabulary of the claims
Has(p, ev) == \E i \in DOMAIN log[p] : log[p][i] = ev
Before(p, a, b) == \E i, j \in DOMAIN log[p] : i < j /\ log[p][i] = a /\ log[p][j] = b
Finished(p) == pc[p] = "done" /\ call[p] = "verifyJwt"
\* The call of slot p has settled; the handler around it may have gone on.
Ended(p) == pc[p] \in {"done", "forwarding", "responded"}

\* The failure classes of the verifier: the errors jose raises on a failed
\* verification other than the expiry count as SignatureInvalid.
Class(err) ==
    IF err.kind \in {"SignatureInvalid", "JWSInvalid", "KeyTypeError", "AlgNotAllowed"}
    THEN "SignatureInvalid"
    ELSE err.kind

\* t is validly signed with the configured shared secret.
SecretSigned(t) ==
    /\ t.shape = "ok"
    /\ t.alg \in {"HS256", "HS512"}
    /\ t.sig = [alg |-> t.alg, key |-> Secret]
Unexpired(t) == t.payload.exp = "future"

\* The keys a mapping holds as its own properties.
OwnKids(m) == { k \in JwkKids : m[k] # Undefined }

\* C1: a call whose stage 1 succeeds returns the payload of its token and never
\* enters getJWKS nor fetches the JWKS URL, whatever the cache holds.
C1_Stage1SuccessSkipsStage2 ==
    \A p \in Procs :
        (call[p] = "verifyJwt" /\ SecretSigned(tok[p]) /\ Unexpired(tok[p]))
            => /\ ~Has(p, "getJWKS") /\ ~Has(p, "fetch") /\ ~Has(p, "cached")
               /\ pc[p] = "stage1" \/ Ended(p)
               /\ Ended(p) => (Has(p, "stage1_ok") /\ result[p] = Ok(tok[p].payload))

\* C1 happens: a token with a kid and a non-HS256 algorithm passed stage 1
\* while the cache was populated.
C1_Witness ==
    \E p \in Procs :
        /\ Finished(p) /\ Has(p, "stage1_ok") /\ result[p].ok
        /\ tok[p].kid = "k1" /\ tok[p].alg = "HS512"
        /\ CacheHit(cachedJWK)

\* The token of the fail-over scenario: RS256, kid k1, signed by priv1, whose
\* public key pub1 the key set holds under k1.
FailoverToken(t) ==
    /\ t.shape = "ok" /\ t.alg = "RS256" /\ t.kid = "k1"
    /\ t.sig = [alg |-> "RS256", key |-> "priv1"]
    /\ Unexpired(t)
HoldsK1(c) == c.set /\ c.map["k1"] = PublicKey(JWK("k1", "pub1", TRUE))

\* C2: with the key set holding pub1 under k1, the fail-over token is returned
\* its payload after stage 1 failed, then getJWKS ran, then the verification
\* with the key; and in no call does a step of stage 2 precede stage 1.
C2_FailoverOrder ==
    \A p \in Procs :
        /\ (Finished(p) /\ FailoverToken(tok[p]) /\ HoldsK1(cachedJWK))
              => /\ result[p] = Ok(tok[p].payload)
                 /\ Before(p, "stage1_fail", "getJWKS")
                 /\ Before(p, "getJWKS", "lookup")
                 /\ Before(p, "lookup", "verify2_ok")
        /\ \A i \in DOMAIN log[p] :
              log[p][i] \in {"getJWKS", "fetch", "cached", "lookup", "lookup_miss",
                             "verify2_ok", "verify2_fail"}
                 => (call[p] = "getJWKS" \/ \E j \in 1..(i - 1) : log[p][j] = "stage1_fail")

\* C2 happens: the fail-over token succeeded at stage 2 through a fetch.
C2_Witness ==
    \E p \in Procs :
        /\ Finished(p) /\ FailoverToken(tok[p]) /\ result[p].ok
        /\ log[p] = << "parse", "stage1_fail", "getJWKS", "fetch", "fetch_ok", "import_ok",
                       "lookup", "verify2_ok" >>

\* C3: a token validly signed with the shared secret and unexpired makes
\* verifyJwt return claims equal to the payload it encodes.
C3_RoundTrip ==
    \A p \in Procs :
        (Finished(p) /\ SecretSigned(tok[p]) /\ Unexpired(tok[p]))
            => (result[p].ok /\ result[p].payload = tok[p].payload)

\* C3 happens: an HS512 token carrying sub u2 came back with its claims.
C3_Witness ==
    \E p \in Procs :
        /\ Finished(p) /\ SecretSigned(tok[p]) /\ result[p].ok
        /\ tok[p].alg = "HS512" /\ result[p].payload = [sub |-> "u2", exp |-> "future"]

\* t is signed with a key that is neither the shared secret nor the private
\* counterpart of any key a key set holds.
ForeignSigned(t) == t.shape = "ok" /\ t.sig.key \in {"wr0ng", "privX"}
\* The getJWKS of the call, if it ran, did not fail.
KeySetObtained(p) == ~(result[p].err.kind = "KeySetFetchFailed")

ExpiredButValid(p) ==
    /\ tok[p].shape = "ok" /\ tok[p].payload.exp = "past"
    /\ \/ SecretSigned(tok[p])
       \/ /\ jwks[p].set /\ tok[p].kid \in OwnKids(jwks[p].map)
          /\ KeyUsable(tok[p].alg, jwks[p].map[tok[p].kid])
          /\ SigValid(tok[p], tok[p].alg, jwks[p].map[tok[p].kid])

\* C5: an expired token whose signature is otherwise valid fails with
\* TokenExpired and with no other class.
C5_ExpiredIsTokenExpired ==
    \A p \in Procs :
        (Finished(p) /\ ExpiredButValid(p))
            => (~result[p].ok /\ Class(result[p].err) = "TokenExpired")

\* C6: a malformed token fails with MalformedToken and its call makes no
\* request to the JWKS URL.
C6_MalformedFailsFast ==
    \A p \in Procs :
        (call[p] = "verifyJwt" /\ tok[p].shape # "ok")
            => /\ ~Has(p, "fetch")
               /\ pc[p] = "done" => (~result[p].ok /\ Class(result[p].err) = "MalformedToken")

\* C7 as stated: stage 2 is entered only after stage 1 failed, with a declared
\* algorithm other than HS256 and with a kid; a kid without alg stays out.
C7_Original ==
    \A p \in Procs :
        (call[p] = "verifyJwt" /\ Has(p, "getJWKS"))
            => /\ Before(p, "stage1_fail", "getJWKS")
               /\ ParseJwtHeader(tok[p]).alg \notin {"HS256", NoAlg}
               /\ ParseJwtHeader(tok[p]).kid # NoKid

\* C7 amended: stage 2 is entered only after stage 1 failed, with a header
\* whose alg is not HS256 (an absent alg included) and which carries a kid.
C7_Stage2Precondition ==
    \A p \in Procs :
        (call[p] = "verifyJwt" /\ (Has(p, "getJWKS") \/ pc[p] \in {"fetching", "importing", "stage2"}))
            => /\ Before(p, "stage1_fail", "getJWKS")
               /\ ~Has(p, "stage1_ok")
               /\ ParseJwtHeader(tok[p]).alg # "HS256"
               /\ ParseJwtHeader(tok[p]).kid # NoKid

\* C7 happens: a header with a kid and no alg reached the key-set lookup.
C7_Witness ==
    \E p \in Procs :
        /\ Finished(p) /\ tok[p].shape = "ok" /\ tok[p].alg = NoAlg /\ tok[p].kid = "k1"
        /\ Has(p, "getJWKS") /\ Has(p, "lookup")

C9_KeyNotFound ==
    \A p \in Procs :
        (Finished(p) /\ jwks[p].set /\ ParseJwtHeader(tok[p]).kid \notin OwnKids(jwks[p].map))
            => /\ ~result[p].ok
               /\ result[p].err.kind = "KeyNotFound"
               /\ ~Has(p, "verify2_ok") /\ ~Has(p, "verify2_fail")
               /\ cachedJWK = jwks[p]

\* C10: a getJWKS call started after some getJWKS call completed successfully
\* finds the cache populated, issues no fetch and returns the cached mapping,
\* whatever the endpoint answers by then.
C10_CachedAfterFirstSuccess ==
    \A p \in Procs :
        (pc[p] # "idle" /\ after[p])
            => /\ CacheHit(seen[p])
               /\ jwks[p] = seen[p]
               /\ ~Has(p, "fetch")
               /\ pc[p] \notin {"fetching", "importing"}
               /\ result[p].err.kind # "KeySetFetchFailed"
               /\ (call[p] = "getJWKS" => (pc[p] = "done" /\ result[p].ok))

\* C10 happens: with the endpoint unreachable, a later getJWKS call returned
\* the mapping an earlier call had cached.
C10_Witness ==
    \E p \in Procs :
        /\ call[p] = "getJWKS" /\ pc[p] = "done" /\ after[p] /\ result[p].ok
        /\ log[p] = << "getJWKS", "cached" >>
        /\ endpoint = "down"
        /\ HoldsK1(jwks[p])

\* ---------------------------------------------------------------- C11
HasIn(l, ev) == \E i \in DOMAIN l : l[i] = ev
\* The getJWKS run of slot p ends in a failure in this step.
FailsInGetJWKS(p) ==
    /\ pc[p] \in {"fetching", "importing"}
    /\ pc'[p] = "done"
    /\ ~result'[p].ok
    /\ result'[p].err.kind = "KeySetFetchFailed"
\* The mapping a key document stands for when every key of it is imported.
CompleteMapping(keys) ==
    [k \in JwkKids |->
        IF \E i \in DOMAIN keys : keys[i].kid = k
        THEN PublicKey(keys[CHOOSE i \in DOMAIN keys : keys[i].kid = k])
        ELSE Undefined]
AllImportable(keys) == \A i \in DOMAIN keys : keys[i].importable
\* The getJWKS run of slot p enters in this step.
EntersGetJWKS(p) == ~HasIn(log[p], "getJWKS") /\ HasIn(log'[p], "getJWKS")

\* C11: the cache update of getJWKS is all-or-nothing.  A step in which a
\* getJWKS run fails (fetch rejected, non-2xx status, no keys, or a key that
\* cannot be imported) leaves the cache as it was; the cache changes only in
\* a step that stores the complete mapping of a document whose every key was
\* imported; and a run that finds the cache empty issues a fetch.
C11_AllOrNothing ==
    [][ /\ \A p \in Procs : FailsInGetJWKS(p) => cachedJWK' = cachedJWK
        /\ cachedJWK' # cachedJWK =>
               \E p \in Procs :
                   /\ pc[p] = "importing"
                   /\ AllImportable(res[p])
                   /\ cachedJWK' = Cached(CompleteMapping(res[p]))
        /\ \A p \in Procs :
               (EntersGetJWKS(p) /\ ~cachedJWK.set) => pc'[p] = "fetching"
      ]_vars

\* C11 happens: a run fetched a document whose first key imports and whose
\* second does not, failed, and the cache is still empty.
C11_Witness ==
    \E p \in Procs :
        /\ pc[p] = "done" /\ Has(p, "import_fail")
        /\ result[p].err.kind = "KeySetFetchFailed"
        /\ Len(res[p]) = 2 /\ res[p][1].importable /\ ~res[p][2].importable
        /\ cachedJWK = NoCache

\* ---------------------------------------------------------------- C14
\* The getJWKS run of slot p found the cache empty and imported a response.
FetchedAndImported(p) == ~seen[p].set /\ Has(p, "fetch") /\ Has(p, "import_ok")
AllFinished == \A p \in Procs : pc[p] = "done"

\* C14 as stated: when all the calls that started on an empty cache have
\* finished, the mappings they wrote are all equal and the cache holds it.
C14_Original ==
    (AllFinished /\ \A p \in Procs : FetchedAndImported(p))
        => \A p, q \in Procs : jwks[p] = jwks[q] /\ cachedJWK = jwks[p]

\* C14, amended: every call that imports a response returns the complete
\* mapping of that response, calls that received the same response return
\* equal mappings, and every call that completes its import overwrites the
\* cache with its own mapping, so the cache holds the mapping of the last
\* call to complete; mappings of different responses need not be equal.
C14_LastWriterWins ==
    /\ [](\A p, q \in Procs :
            /\ Has(p, "import_ok") => jwks[p] = Cached(CompleteMapping(res[p]))
            /\ (Has(p, "import_ok") /\ Has(q, "import_ok") /\ res[p] = res[q])
                   => jwks[p] = jwks[q])
    /\ [][ \A p \in Procs :
              (~HasIn(log[p], "import_ok") /\ HasIn(log'[p], "import_ok"))
                  => cachedJWK' = jwks'[p]
          ]_vars

\* C14 happens: two calls started on an empty cache, each fetched on its own,
\* both imported a two-key response and finished, and the cache holds that
\* mapping.
C14_Witness ==
    /\ AllFinished
    /\ \A p \in Procs : FetchedAndImported(p) /\ Len(res[p]) = 2
    /\ \A p \in Procs : cachedJWK = jwks[p]

\* ---------------------------------------------------------------- C15
\* C15 as stated: once the cache holds a mapping, no step changes it.
C15_Original ==
    [][ cachedJWK.set => cachedJWK' = cachedJWK ]_vars

\* C15, amended: once the cache holds a mapping it is never emptied, and it
\* is replaced only by a getJWKS run that had found the cache empty when it
\* started (a concurrent first-time miss), with the complete mapping of the
\* response that run fetched.
C15_NeverEmptiedOnlyRacedOver ==
    [][ cachedJWK.set =>
           /\ cachedJWK'.set
           /\ cachedJWK' # cachedJWK =>
                  \E p \in Procs :
                      /\ pc[p] = "importing"
                      /\ ~seen[p].set
                      /\ cachedJWK' = Cached(CompleteMapping(res[p]))
      ]_vars

\* C15 happens: after a key rotation between two concurrent fetches, the
\* cache holds the mapping of the later writer and an earlier writer still
\* holds the mapping the cache had before.
C15_Witness ==
    \E p, q \in Procs :
        /\ FetchedAndImported(p) /\ FetchedAndImported(q)
        /\ jwks[q] = Cached(CompleteMapping(KeysOf("ks1")))
        /\ jwks[p] = Cached(CompleteMapping(KeysOf("ks2")))
        /\ cachedJWK = jwks[p]

\* ---------------------------------------------------------------- C12
NoKeysFailure(r) ==
    ~r.ok /\ r.err.kind = "KeySetFetchFailed" /\ r.err.detail = "nokeys"
Protected(p) == req[p].route = "rest"
Forwarded(p) == out[p] # NoOut

C13_KeySetFailureIs5xx ==
    \A p \in Procs :
        (Protected(p) /\ pc[p] = "responded" /\ result[p].err.kind = "KeySetFetchFailed")
            => resp[p].status >= 500

\* ---------------------------------------------------------------- C16
\* C16: on /rest/v1 the request to Supabase is issued only after verifyJwt
\* returned the claims of the presented token; a request without a token or
\* whose verification failed is answered with an error status and no
\* request is sent upstream for it.
C16_ForwardOnlyAfterVerify ==
    \A p \in Procs :
        Protected(p) =>
            /\ Forwarded(p) =>
                  /\ req[p].auth.kind = "bearer" /\ tok[p] = req[p].auth.token
                  /\ call[p] = "verifyJwt" /\ result[p].ok
                  /\ Has(p, "stage1_ok") \/ Has(p, "verify2_ok")
            /\ pc[p] = "forwarding" => Forwarded(p)
            /\ (pc[p] = "responded" /\ ~result[p].ok)
                  => resp[p].status \in {401, 503} /\ ~Forwarded(p)

\* C16 happens: a protected request whose token only stage 2 verifies was
\* forwarded and the answer of Supabase relayed.
C16_Witness ==
    \E p \in Procs :
        /\ Protected(p) /\ pc[p] = "responded"
        /\ Has(p, "verify2_ok") /\ Forwarded(p)
        /\ resp[p].status = 200

\* ---------------------------------------------------------------- C17
ViaGateway(p) == req[p].route = "upstream"

\* C17: every request the X-Upstream gateway forwards carried a bearer token
\* that verifyJwt had accepted before the forward.
C17_GatewayForwardsOnlyVerified ==
    \A p \in Procs :
        (ViaGateway(p) /\ Forwarded(p))
            => /\ req[p].auth.kind = "bearer"
               /\ call[p] = "verifyJwt" /\ result[p].ok

\* ---------------------------------------------------------------- C18
\* C18: the X-Upstream gateway sends a request only to the base URL of the
\* entry of upstreamServices the header names, and a request whose header is
\* missing or names no entry is answered 400 with no outbound request.
C18_OnlyConfiguredUpstreams ==
    \A p \in Procs :
        ViaGateway(p) =>
            /\ Forwarded(p) =>
                  /\ req[p].xup \in ServiceNames
                  /\ out[p].to = UpstreamServices[req[p].xup].baseUrl
            /\ (pc[p] # "idle" /\ req[p].xup \notin ServiceNames)
                  => /\ pc[p] = "responded"
                     /\ resp[p].status = 400
                     /\ ~Forwarded(p)

\* ---------------------------------------------------------------- C19
\* C19: the Authorization header of every forwarded request is the
\* credential the server holds for that upstream and never the header the
\* client sent, for every entry of upstreamServices.
C19_OutboundCredentialIsServers ==
    \A p \in Procs :
        Forwarded(p) =>
            /\ out[p].authorization # ClientCredential
            /\ Protected(p) =>
                  out[p].authorization = ServerCredential("SUPABASE_SERVICE_ROLE_KEY")
            /\ (ViaGateway(p) /\ UpstreamServices[req[p].xup].authorization # NoHeader)
                  => out[p].authorization = UpstreamServices[req[p].xup].authorization

\* ---------------------------------------------------------------- C20
MissingTokenError(r) == "Missing Authorization token" \in {r.message, r.details}

\* C20: a protected request without an Authorization header, or with
\* nothing after 'Bearer ', is answered 401 with the missing-token error
\* before verifyJwt is called and with no fetch of the key set and no
\* upstream request; no request that carries a token, malformed or not, is
\* answered with that error.
C20_MissingTokenRejected ==
    \A p \in Procs :
        Protected(p) =>
            IF req[p].auth.kind \in {"none", "empty"}
            THEN /\ pc[p] = "responded"
                 /\ resp[p].status = 401
                 /\ MissingTokenError(resp[p])
                 /\ call[p] = "-" /\ log[p] = << >> /\ result[p] = NoResult
                 /\ ~Forwarded(p)
            ELSE pc[p] = "responded" => ~MissingTokenError(resp[p])

\* C20 happens: a request with 'Bearer ' and nothing after it was answered
\* through verifyAuthToken.
C20_Witness ==
    \E p \in Procs :
        /\ Protected(p) /\ req[p].auth = EmptyBearer /\ req[p].mw
        /\ pc[p] = "responded" /\ resp[p].status = 401
        /\ resp[p].details = "Missing Authorization token"

\* ---------------------------------------------------------------- C21
\* The protected request of slot p was answered after verifyJwt threw.
VerificationFailed(p) ==
    Protected(p) /\ pc[p] = "responded" /\ call[p] = "verifyJwt" /\ ~result[p].ok

\* C21: a protected request whose verification failed with the expiry error
\* is answered 401 with the message 'Token expired' and never with the
\* generic message.
C21_ExpiredHasOwnMessage ==
    \A p \in Procs :
        (VerificationFailed(p) /\ result[p].err.kind = "TokenExpired")
            => /\ resp[p].status = 401
               /\ resp[p].message = "Token expired"
               /\ resp[p].message # "Invalid or expired token"

\* ---------------------------------------------------------------- C25
\* C25: a failure raised by getJWKS during stage 2 is what the caller of
\* verifyJwt receives: the same error, not a new one built around it.
C25_KeySetFailureUnchanged ==
    \A p \in Procs :
        (Finished(p) /\ Has(p, "getJWKS") /\ result[p].err.kind = "KeySetFetchFailed")
            => /\ ~result[p].ok
               /\ ~result[p].err.wrapped

\* ---------------------------------------------------------------- C26
CountIn(l, ev) == Cardinality({ i \in DOMAIN l : l[i] = ev })

\* C26: no retries.  A call makes at most one shared-secret attempt, enters
\* getJWKS at most once, issues at most one fetch of the JWKS URL and makes
\* at most one public-key attempt; a fetch that fails is the last thing the
\* call does and the call ends with KeySetFetchFailed.
C26_NoRetries ==
    \A p \in Procs :
        /\ CountIn(log[p], "stage1_ok") + CountIn(log[p], "stage1_fail") <= 1
        /\ CountIn(log[p], "getJWKS") <= 1
        /\ CountIn(log[p], "fetch") <= 1
        /\ CountIn(log[p], "fetch_ok") + CountIn(log[p], "fetch_fail") <= 1
        /\ CountIn(log[p], "verify2_ok") + CountIn(log[p], "verify2_fail") <= 1
        /\ Has(p, "fetch_fail") =>
              /\ Ended(p)
              /\ log[p][Len(log[p])] = "fetch_fail"
              /\ ~result[p].ok
              /\ result[p].err.kind = "KeySetFetchFailed"

\* C26 happens: a verifyJwt call failed stage 1, fetched once while the
\* endpoint was unreachable and ended there.
C26_Witness ==
    \E p \in Procs :
        /\ Finished(p)
        /\ log[p] = << "parse", "stage1_fail", "getJWKS", "fetch", "fetch_fail" >>
        /\ result[p].err.detail = "network"

\* ---------------------------------------------------------------- C28
\* C28: the cache is one slot, not keyed by URL.  A getJWKS call that finds
\* the cache populated returns the mapping it found and issues no fetch,
\* whatever URL it was given.
C28_CacheIgnoresUrl ==
    \A p \in Procs :
        (call[p] = "getJWKS" /\ seen[p].set)
            => /\ url[p] \in Urls
               /\ pc[p] = "done" /\ result[p].ok
               /\ jwks[p] = seen[p]
               /\ log[p] = << "getJWKS", "cached" >>

\* C28 happens: the cache was populated from the configured URL with the
\* one-key document, and a call given the other URL, which serves a
\* different document, returned the cached mapping.
C28_Witness ==
    \E p \in Procs :
        /\ call[p] = "getJWKS" /\ url[p] = OtherUrl
        /\ pc[p] = "done" /\ result[p].ok
        /\ jwks[p] = Cached(CompleteMapping(KeysOf("ks1")))
        /\ jwks[p] # Cached(CompleteMapping(KeysOf(AnswerOf(OtherUrl, endpoint))))
        /\ ~Has(p, "fetch")

\* ---------------------------------------------------------------- C29
\* The mapping m is the complete mapping of a document the endpoint serves.
BuiltFromWholeDocument(m) ==
    \E e \in EndpointStates :
        /\ KeysOf(e) # << >> /\ AllImportable(KeysOf(e))
        /\ m = Cached(CompleteMapping(KeysOf(e)))

\* C29: once the cache holds a mapping it holds one in every later state,
\* a getJWKS run that fails leaves a populated cache as it is, and every
\* mapping a caller received holds every key of the response it was built
\* from.
C29_NeverEmptiedByFailure ==
    /\ [][ cachedJWK.set =>
              /\ cachedJWK'.set
              /\ \A p \in Procs : FailsInGetJWKS(p) => cachedJWK' = cachedJWK
          ]_vars
    /\ [](\A p \in Procs :
            /\ Has(p, "import_ok") => jwks[p] = Cached(CompleteMapping(res[p]))
            /\ Has(p, "cached") => BuiltFromWholeDocument(jwks[p]))

\* C29 happens: one call has populated the cache while another, which had
\* found it empty, is still waiting for its fetch, and the endpoint is now
\* unreachable, so that this fetch fails next.
C29_Witness ==
    \E p, q \in Procs :
        /\ p # q
        /\ Has(q, "import_ok") /\ cachedJWK = jwks[q] /\ cachedJWK.set
        /\ pc[p] = "fetching" /\ ~seen[p].set
        /\ AnswerOf(url[p], endpoint) = "down"

\* ---------------------------------------------------------------- C24
\* C24: a request the gateway forwards goes upstream with the method and
\* the body the client sent, for every method that can carry a body (DELETE
\* included) and every body that is text.
C24_BodyPreserved ==
    \A p \in Procs :
        (ViaGateway(p) /\ Forwarded(p)
         /\ req[p].method \notin {"GET", "HEAD"} /\ req[p].body # "bytes")
            => /\ out[p].method = req[p].method
               /\ out[p].body = req[p].body

\* ---------------------------------------------------------------- C22
PasswordReset(p) == req[p].route = "tools/password-reset"
UpdateIssued(p) == Has(p, "update")

\* C22: in a password reset the lookup comes first, the check of the
\* academic credentials second and the update last; the update is issued
\* only after the lookup gave a user id and the academic system answered
\* 302, and after a step that failed nothing further is sent.
C22_ResetOrder ==
    \A p \in Procs :
        PasswordReset(p) =>
            /\ Has(p, "validate") => Before(p, "lookup_found", "validate")
            /\ UpdateIssued(p) =>
                   /\ Before(p, "lookup", "lookup_found")
                   /\ Before(p, "lookup_found", "validate")
                   /\ Before(p, "validate", "validate_302")
                   /\ Before(p, "validate_302", "update")
            /\ out[p] = UpdateRequest => UpdateIssued(p)
            /\ (\E ev \in {"lookup_empty", "lookup_status500", "lookup_unreachable"} : Has(p, ev))
                   => /\ ~Has(p, "validate") /\ ~UpdateIssued(p)
                      /\ out[p] = LookupRequest /\ pc[p] = "responded"
            /\ (\E ev \in {"validate_200", "validate_500", "validate_unreachable"} : Has(p, ev))
                   => /\ ~UpdateIssued(p)
                      /\ out[p] = AcademicRequest /\ pc[p] = "responded"

\* C22 happens: a password reset has run its three steps in order and the
\* update has been answered.
C22_Witness ==
    \E p \in Procs :
        /\ PasswordReset(p) /\ pc[p] = "responded" /\ resp[p].status = 200
        /\ log[p] = << "lookup", "lookup_found", "validate", "validate_302", "update", "update_200" >>

\* ---------------------------------------------------------------- C23
\* C23: a password reset that got as far as the lookup is answered 404
\* exactly when the lookup found no user, and a lookup request that failed (a non-2xx answer or a rejected
\* fetch) is answered 500.
C23_LookupFailureIs500 ==
    \A p \in Procs :
        (PasswordReset(p) /\ Has(p, "lookup") /\ pc[p] = "responded") =>
            /\ resp[p].status = 404 <=> Has(p, "lookup_empty")
            /\ (Has(p, "lookup_status500") \/ Has(p, "lookup_unreachable"))
                   => resp[p].status = 500

\* ---------------------------------------------------------------- C30
InFlight(p) == req[p] # NoReq
Answered(p) == pc[p] = "responded"
Unrouted(p) ==
    \/ req[p].route \in {NoRoute, "tools/unknown", "auth/unknown"}
    \/ req[p].route \in {"tools/password-reset", "tools/verify-user-exists", "auth/login"}
           /\ req[p].method # "POST"
    \/ req[p].route = "auth/user" /\ req[p].method # "GET"

\* C30: every request the handler takes is answered, once: a request in
\* flight leads to a response, the handler has ended exactly when there is
\* a response, which then stays as it is until the slot is free again; a
\* request whose handling threw before a route was chosen is answered 500,
\* and a request that matches no route 404.
C30_OneResponseAlways ==
    /\ [](\A p \in Procs :
            /\ Answered(p) <=> resp[p] # NoResp
            /\ Answered(p) => resp[p].status \in {200, 400, 401, 404, 422, 500, 502, 503}
            /\ (Answered(p) /\ req[p].fault # NoFault) => resp[p].status = 500
            /\ (Answered(p) /\ req[p].fault = NoFault /\ Unrouted(p)) => resp[p].status = 404)
    /\ [][ \A p \in Procs :
              resp[p] # NoResp =>
                  \/ resp'[p] = resp[p] /\ pc'[p] = pc[p]
                  \/ resp'[p] = NoResp /\ pc'[p] = "idle"
          ]_vars
    /\ \A p \in {1} : InFlight(p) ~> Answered(p)

\* C30 happens: reading the body of a request threw, and the catch around
\* the handler has answered 500.
C30_Witness ==
    \E p \in Procs :
        /\ req[p].fault = "bodyUnreadable" /\ Answered(p)
        /\ resp[p] = Response(500, "Internal server error", "body", "-")

\* ---------------------------------------------------------------- C27
\* The masked form of an address: at most its first three characters, then
\* the mask, then the address from the '@' on.
MaskedForm(e) ==
    LET at == AtOf(e)
        shown == IF at - 1 < 3 THEN at - 1 ELSE 3
    IN  SubSeq(e, 1, shown) \o Mask \o SubSeq(e, at, Len(e))

\* C27: a log line that logJwtPayload or parseAndLogRequestBody writes
\* about an email shows the masked form of the address, for every address,
\* those with fewer than three characters before the '@' included.
C27_EmailMasked ==
    emailLog.site \in {"logJwtPayload", "parseAndLogRequestBody"}
        => emailLog.text = MaskedForm(emailLog.email)
====
